---- MODULE Spec2Model ----
(***************************************************************************)
(* Model of frontend/src/App.tsx: the user table, the record form (React   *)
(* state plus the react-hook-form draft validated by the zod schema), the  *)
(* four axios calls and the page reload that follows every mutation.       *)
(*                                                                         *)
(* Numbers typed into the employee-ID input are kept in halves, so that    *)
(* non-integers exist: the value v stands for v/2 (3 is 1.5, 4 is 2).      *)
(* Instants are counted in half days: the instant t lies on day t \div 2,  *)
(* and t is UTC midnight exactly when t is even.  A date value is a record *)
(* [k, t]: k = "date" for a JavaScript Date object (t = -1 is Invalid      *)
(* Date), k = "str" for the ISO string the backend's JSON carries.         *)
(* Names are sequences of characters, so that length is meaningful.        *)
(***************************************************************************)
EXTENDS Integers, Sequences, FiniteSets, TLC

VARIABLES users, selectedUser, name, empId, birthDate,
          formValues, errors, crashed, fetched,
          page, net,
          db, nextId

clientVars == <<users, selectedUser, name, empId, birthDate,
                formValues, errors, crashed, fetched>>
netVars    == <<page, net>>
serverVars == <<db, nextId>>
vars       == <<users, selectedUser, name, empId, birthDate,
                formValues, errors, crashed, fetched,
                page, net, db, nextId>>

----------------------------------------------------------------------------
(* Bounds *)

\* number of page reloads (hence of mutations) explored
MaxReloads == 1

----------------------------------------------------------------------------
(* Values *)

\* wall-clock readings of new Date(): an instant after midnight of day 0
NowInstants  == { 1 }
\* what the operator can type into the three inputs
TypedNames   == { <<>>, <<"b">> }
TypedEmpIds  == { -2, 0, 3, 2 }
EmptyInput   == -1
TypedDates   == { 0, EmptyInput }

DateObj(t)   == [k |-> "date", t |-> t]
IsoString(t) == [k |-> "str", t |-> t]
InvalidDate  == DateObj(-1)

\* selectedUser: User | null
Null == [id |-> 0, name |-> <<>>, empId |-> 0, birthDate |-> IsoString(0)]

\* new Date(x) for x a Date or an ISO string
NewDate(x) == DateObj(x.t)

\* new Date(event.target.value) for the value of a date input:
\* "yyyy-MM-dd" is UTC midnight of that day, "" is Invalid Date
NewDateFromInput(v) == IF v = EmptyInput THEN InvalidDate ELSE DateObj(2 * v)

\* birthDate.toISOString().substr(0, 10): the day of the instant
IsoDay(d) == d.t \div 2

\* JSON.stringify of a request body: a Date becomes its ISO string
ToJSON(data) ==
  [name |-> data.name, empId |-> data.empId,
   birthDate |-> IsoString(data.birthDate.t)]

----------------------------------------------------------------------------
(* userDataSchema *)

NoMsg           == "none"
MsgNameMin      == "name: at least 1 character"
MsgEmpIdInt     == "empId: integer required"
MsgEmpIdPos     == "empId: 1 or more required"
MsgExpectedDate == "birthDate: expected date"
MsgInvalidDate  == "birthDate: invalid date"

\* (variant: the minimum-length check left out)
nameIssueNoMin(v) == NoMsg

nameIssue(v) == IF Len(v) >= 1 THEN NoMsg ELSE MsgNameMin

\* (variant: zero accepted, as the TODO's "0 or more" wording would have it)
empIdIssueNonNegative(v) ==
  IF v % 2 # 0 THEN MsgEmpIdInt
  ELSE IF v < 0 THEN MsgEmpIdPos
  ELSE NoMsg

empIdIssue(v) ==
  IF v % 2 # 0 THEN MsgEmpIdInt
  ELSE IF v <= 0 THEN MsgEmpIdPos
  ELSE NoMsg

birthDateIssue(v) ==
  IF v.k # "date" THEN MsgExpectedDate
  ELSE IF v.t < 0 THEN MsgInvalidDate
  ELSE NoMsg

\* the resolver's result: the first issue of every field
userDataSchema(data) ==
  [name      |-> nameIssue(data.name),
   empId     |-> empIdIssue(data.empId),
   birthDate |-> birthDateIssue(data.birthDate)]

NoErrors == [name |-> NoMsg, empId |-> NoMsg, birthDate |-> NoMsg]

----------------------------------------------------------------------------
(* axios calls and the handlers that make them.  A handler's effect is the *)
(* requests it issues, in order, and whether it reloads the page.          *)

NoData == [name |-> <<>>, empId |-> 0, birthDate |-> IsoString(0)]

getUsers == [kind |-> "GET", id |-> 0, data |-> NoData]

createUser(data) ==
  [reqs   |-> << [kind |-> "POST", id |-> 0, data |-> ToJSON(data)] >>,
   reload |-> FALSE]

\* (variant: the identifier left out of the request)
deleteUserNoId(id) ==
  [reqs   |-> << [kind |-> "DELETE", id |-> 0, data |-> NoData] >>,
   reload |-> TRUE]

deleteUser(id) ==
  [reqs   |-> << [kind |-> "DELETE", id |-> id, data |-> NoData] >>,
   reload |-> TRUE]

\* (variant: the row's index used where the identifier belongs)
updateUserByIndex(id, data) ==
  [reqs   |-> << [kind |-> "PATCH", id |-> id - 1, data |-> ToJSON(data)] >>,
   reload |-> TRUE]

updateUser(id, data) ==
  [reqs   |-> << [kind |-> "PATCH", id |-> id, data |-> ToJSON(data)] >>,
   reload |-> TRUE]

NoEffect == [reqs |-> << >>, reload |-> FALSE]

\* (variant: the create not guarded by the selection)
onSubmitAlwaysCreates(sel, data) ==
  LET c == createUser(data)
      u == IF sel # Null THEN updateUser(sel.id, data) ELSE NoEffect
  IN  [reqs |-> c.reqs \o u.reqs, reload |-> TRUE]

\* (variant: the trailing reload left out, so that only updateUser reloads)
onSubmitNoReload(sel, data) ==
  LET c == IF sel = Null THEN createUser(data) ELSE NoEffect
      u == IF sel # Null THEN updateUser(sel.id, data) ELSE NoEffect
  IN  [reqs |-> c.reqs \o u.reqs, reload |-> u.reload]

onSubmit(sel, data) ==
  LET c == IF sel = Null THEN createUser(data) ELSE NoEffect
      u == IF sel # Null THEN updateUser(sel.id, data) ELSE NoEffect
  IN  [reqs |-> c.reqs \o u.reqs, reload |-> TRUE]

----------------------------------------------------------------------------
(* Page load and reload *)

Stamp(r, p) == [kind |-> r.kind, id |-> r.id, data |-> r.data, page |-> p]

IsGet(r) == r.kind = "GET"

\* useState initialisers, the registration of the inputs with useForm (the
\* draft starts as what the inputs show) and the two mount effects
FreshPage(now) ==
  /\ users' = << >>
  /\ selectedUser' = Null
  /\ name' = << >>
  /\ empId' = 0
  /\ birthDate' = DateObj(now)
  /\ formValues' = [name |-> << >>, empId |-> 0,
                    birthDate |-> NewDateFromInput(IsoDay(DateObj(now)))]
  /\ errors' = NoErrors
  /\ crashed' = FALSE
  /\ fetched' = "pending"

\* the handler's requests leave, and window.location.reload() replaces the
\* page: its list fetch is superseded, the new page mounts and fetches the
\* list.  Mutations in flight stay in flight: nothing waits for them.
Perform(eff) ==
  LET issued == { Stamp(eff.reqs[i], page) : i \in DOMAIN eff.reqs }
  IN  IF eff.reload
      THEN /\ page < MaxReloads
           /\ page' = page + 1
           /\ net' = { r \in net : ~IsGet(r) } \cup issued
                       \cup { Stamp(getUsers, page + 1) }
           /\ \E now \in NowInstants : FreshPage(now)
      ELSE /\ net' = net \cup issued
           /\ UNCHANGED <<page, clientVars>>

----------------------------------------------------------------------------
(* The operator's actions on the page *)

setName(v) ==
  /\ ~crashed
  /\ v # name
  /\ name' = v
  /\ UNCHANGED <<users, selectedUser, empId, birthDate, formValues, errors,
                 crashed, fetched, netVars, serverVars>>

setEmpId(v) ==
  /\ ~crashed
  /\ v # empId
  /\ empId' = v
  /\ UNCHANGED <<users, selectedUser, name, birthDate, formValues, errors,
                 crashed, fetched, netVars, serverVars>>

\* an Invalid Date makes the next render throw in toISOString(): the
\* component tree unmounts and its state is gone
handleDateChange(v) ==
  /\ ~crashed
  /\ IF NewDateFromInput(v) = InvalidDate
     THEN /\ crashed' = TRUE
          /\ birthDate' = InvalidDate
          /\ users' = << >>
          /\ selectedUser' = Null
          /\ name' = << >>
          /\ empId' = 0
          /\ formValues' = NoData
          /\ errors' = NoErrors
          /\ UNCHANGED fetched
     ELSE /\ birthDate' = NewDateFromInput(v)
          /\ UNCHANGED <<users, selectedUser, name, empId, formValues,
                         errors, crashed, fetched>>
  /\ UNCHANGED <<netVars, serverVars>>

\* register()'s onBlur (onChange is overridden by the inputs' own handlers):
\* the draft takes the value the input shows
onBlurName ==
  /\ ~crashed
  /\ formValues' = [formValues EXCEPT !.name = name]
  /\ UNCHANGED <<users, selectedUser, name, empId, birthDate, errors,
                 crashed, fetched, netVars, serverVars>>

onBlurEmpId ==
  /\ ~crashed
  /\ formValues' = [formValues EXCEPT !.empId = empId]
  /\ UNCHANGED <<users, selectedUser, name, empId, birthDate, errors,
                 crashed, fetched, netVars, serverVars>>

onBlurBirthDate ==
  /\ ~crashed
  /\ formValues' = [formValues EXCEPT
                      !.birthDate = NewDateFromInput(IsoDay(birthDate))]
  /\ UNCHANGED <<users, selectedUser, name, empId, birthDate, errors,
                 crashed, fetched, netVars, serverVars>>

\* reset(values) of useForm: the draft becomes the given values and the
\* errors are cleared.  The row's birthDate is the JSON string; the field is
\* registered with valueAsDate, and the library may keep the string or
\* coerce it when the input registers again.
reset(values) ==
  /\ \E bd \in { values.birthDate, NewDate(values.birthDate) } :
       formValues' = [name |-> values.name, empId |-> values.empId,
                      birthDate |-> bd]
  /\ errors' = NoErrors

\* the effect on [selectedUser]: runs only when the selection changed
selectedUserEffect(prev, cur, now) ==
  IF cur = prev
  THEN UNCHANGED <<name, empId, birthDate>>
  ELSE IF cur # Null
  THEN /\ name' = cur.name
       /\ empId' = cur.empId
       /\ birthDate' = NewDate(cur.birthDate)
  ELSE /\ name' = << >>
       /\ empId' = 0
       /\ birthDate' = DateObj(now)

setSelectedRow(user) ==
  /\ ~crashed
  /\ selectedUser' = user
  /\ reset([name |-> user.name, empId |-> user.empId,
            birthDate |-> user.birthDate])
  /\ \E now \in NowInstants : selectedUserEffect(selectedUser, user, now)
  /\ UNCHANGED <<users, crashed, fetched, netVars, serverVars>>

\* the "add another user" button, shown while a user is selected
clearField ==
  /\ ~crashed
  /\ selectedUser # Null
  /\ \E now \in NowInstants :
       /\ name' = << >>
       /\ empId' = 0
       /\ birthDate' = DateObj(now)
  /\ selectedUser' = Null
  /\ UNCHANGED <<users, formValues, errors, crashed, fetched,
                 netVars, serverVars>>

\* handleSubmit(onSubmit): the resolver validates the draft; onSubmit runs
\* only when there is no issue
handleSubmit ==
  /\ ~crashed
  /\ LET issues == userDataSchema(formValues)
     IN  IF issues = NoErrors
         THEN /\ Perform(onSubmit(selectedUser, formValues))
              /\ UNCHANGED serverVars
         ELSE /\ errors' = issues
              /\ UNCHANGED <<users, selectedUser, name, empId, birthDate,
                             formValues, crashed, fetched,
                             netVars, serverVars>>

\* the delete button, shown while a user is selected
deleteClick ==
  /\ ~crashed
  /\ selectedUser # Null
  /\ Perform(deleteUser(selectedUser.id))
  /\ UNCHANGED serverVars

----------------------------------------------------------------------------
(* The list fetch of the mount effect and the REST backend.  The backend  *)
(* serves one request at a time, in any order; a request that fails in     *)
(* transport, or that the reload aborts, is one that is never served.      *)

\* GET /user answered and .then(res => setUsers(res.data)); a component
\* that has unmounted keeps no state
getUsersThen(r) ==
  /\ r \in net /\ r.kind = "GET"
  /\ fetched = "pending"
  /\ users' = IF crashed THEN users ELSE db
  /\ fetched' = "ok"
  /\ net' = net \ {r}
  /\ UNCHANGED <<selectedUser, name, empId, birthDate, formValues, errors,
                 crashed, page, serverVars>>

\* (variant: the catch handler fetching again)
getUsersCatchRetries(r) ==
  /\ r \in net /\ r.kind = "GET"
  /\ fetched = "pending"
  /\ fetched' = "failed"
  /\ net' = (net \ {r}) \cup { Stamp(getUsers, page) }
  /\ UNCHANGED <<users, selectedUser, name, empId, birthDate, formValues,
                 errors, crashed, page, serverVars>>

\* the request fails and .catch(error => console.log(error)) runs
getUsersCatch(r) ==
  /\ r \in net /\ r.kind = "GET"
  /\ fetched = "pending"
  /\ fetched' = "failed"
  /\ net' = net \ {r}
  /\ UNCHANGED <<users, selectedUser, name, empId, birthDate, formValues,
                 errors, crashed, page, serverVars>>

ServePost(r) ==
  /\ r \in net /\ r.kind = "POST"
  /\ db' = Append(db, [id |-> nextId, name |-> r.data.name,
                       empId |-> r.data.empId,
                       birthDate |-> r.data.birthDate])
  /\ nextId' = nextId + 1
  /\ net' = net \ {r}
  /\ UNCHANGED <<clientVars, page>>

ServePatch(r) ==
  /\ r \in net /\ r.kind = "PATCH"
  /\ db' = [j \in DOMAIN db |->
              IF db[j].id = r.id
              THEN [id |-> db[j].id, name |-> r.data.name,
                    empId |-> r.data.empId,
                    birthDate |-> r.data.birthDate]
              ELSE db[j]]
  /\ net' = net \ {r}
  /\ UNCHANGED <<clientVars, page, nextId>>

ServeDelete(r) ==
  /\ r \in net /\ r.kind = "DELETE"
  /\ db' = SelectSeq(db, LAMBDA u : u.id # r.id)
  /\ net' = net \ {r}
  /\ UNCHANGED <<clientVars, page, nextId>>

----------------------------------------------------------------------------
(* Specification *)

InitialDb ==
  << [id |-> 1, name |-> <<"a">>, empId |-> 2, birthDate |-> IsoString(0)],
     [id |-> 2, name |-> <<"b">>, empId |-> 2, birthDate |-> IsoString(0)] >>

Init ==
  /\ db = InitialDb
  /\ nextId = 3
  /\ page = 0
  /\ net = { Stamp(getUsers, 0) }
  /\ users = << >>
  /\ selectedUser = Null
  /\ name = << >>
  /\ empId = 0
  /\ \E now \in NowInstants :
       /\ birthDate = DateObj(now)
       /\ formValues = [name |-> << >>, empId |-> 0,
                        birthDate |-> NewDateFromInput(IsoDay(DateObj(now)))]
  /\ errors = NoErrors
  /\ crashed = FALSE
  /\ fetched = "pending"

Next ==
  \/ \E v \in TypedNames : setName(v)
  \/ \E v \in TypedEmpIds : setEmpId(v)
  \/ \E v \in TypedDates : handleDateChange(v)
  \/ onBlurName
  \/ onBlurEmpId
  \/ onBlurBirthDate
  \/ \E r \in DOMAIN users : setSelectedRow(users[r])
  \/ clearField
  \/ handleSubmit
  \/ deleteClick
  \/ \E r \in net : getUsersThen(r)
  \/ \E r \in net : getUsersCatch(r)
  \/ \E r \in net : ServePost(r)
  \/ \E r \in net : ServePatch(r)
  \/ \E r \in net : ServeDelete(r)

Spec == Init /\ [][Next]_vars

----------------------------------------------------------------------------
(* Properties *)

\* the requests a step issues, and those among them that mutate
Issued          == net' \ net
IssuedOf(k)     == { r \in Issued : r.kind = k }
IssuedMutations == { r \in Issued : r.kind # "GET" }

\* a draft as the validation rules of the specification describe it
NameEmpty(d)     == d.name = << >>
EmpIdInteger(d)  == \E n \in -4..4 : d.empId = 2 * n
EmpIdPositive(d) == d.empId > 0
DateValid(d)     == d.birthDate.k = "date" /\ d.birthDate.t >= 0
DraftValid(d)    == ~NameEmpty(d) /\ EmpIdInteger(d) /\ EmpIdPositive(d)
                      /\ DateValid(d)

\* the state of a page that has just loaded
PageIsFresh ==
  /\ users = << >> /\ selectedUser = Null
  /\ name = << >> /\ empId = 0
  /\ birthDate \in { DateObj(t) : t \in NowInstants }
  /\ errors = NoErrors /\ fetched = "pending"

\* C1: a submission of a draft that passes validation issues exactly one
\* mutation request: one POST and no PATCH when no user is selected, one
\* PATCH and no POST when a user is selected.
C1_OneMutationPerValidSubmit ==
  [][ (handleSubmit /\ DraftValid(formValues)) =>
        /\ Cardinality(IssuedMutations) = 1
        /\ selectedUser = Null => IssuedMutations = IssuedOf("POST")
        /\ selectedUser # Null => IssuedMutations = IssuedOf("PATCH") ]_vars

\* a create is in flight, issued from the first page with a typed name
C1_Witness ==
  \E r \in net :
    /\ r.kind = "POST" /\ r.page = 0
    /\ r.data.name = <<"b">> /\ r.data.empId = 2

\* C2 (as claimed): selecting a row leaves the form fields equal to that
\* row's name, employee ID and birth date, with that row as the selection,
\* from every state, a re-selection of the selected row included.
C2_SelectPopulatesForm ==
  [][ \A i \in DOMAIN users :
        setSelectedRow(users[i]) =>
          /\ selectedUser' = users[i]
          /\ name' = users[i].name
          /\ empId' = users[i].empId
          /\ birthDate' = NewDate(users[i].birthDate)
          /\ formValues'.name = users[i].name
          /\ formValues'.empId = users[i].empId
          /\ formValues'.birthDate.t = users[i].birthDate.t ]_vars

\* C3 (as claimed): the clear action resets every form field to its empty
\* default and the selection to none.
C3_ClearResetsForm ==
  [][ clearField =>
        /\ selectedUser' = Null
        /\ name' = << >> /\ empId' = 0
        /\ birthDate' \in { DateObj(t) : t \in NowInstants }
        /\ formValues'.name = << >> /\ formValues'.empId = 0 ]_vars

\* C4: a submission of a draft whose name is empty, in either mode, is
\* rejected with the name field's minimum-length message; no request is
\* sent and the page does not reload.
C4_EmptyNameRejected ==
  [][ (handleSubmit /\ NameEmpty(formValues)) =>
        /\ errors'.name = MsgNameMin
        /\ net' = net
        /\ page' = page ]_vars

\* rejected in edit mode, the other two fields being valid
C4_Witness ==
  /\ selectedUser # Null
  /\ formValues.name = << >>
  /\ errors = [name |-> MsgNameMin, empId |-> NoMsg, birthDate |-> NoMsg]
  /\ page = 0 /\ net = {}

C6_DeleteTargetsSelection ==
  [][ /\ deleteClick => IssuedOf("DELETE") # {}
      /\ \A r \in IssuedOf("DELETE") :
           /\ selectedUser # Null
           /\ r.id = selectedUser.id
           /\ IssuedMutations = {r} ]_vars

\* the second row has been selected and its delete is in flight
C6_Witness ==
  \E r \in net : r.kind = "DELETE" /\ r.id = 2

\* C7: at most one row of the table is the selection, and the selection is
\* a row of the table; a submission updates exactly when a user is selected
\* and creates otherwise; every update carries the identifier of the user
\* selected when it was submitted.
C7_SelectionDecidesTarget ==
  /\ [](/\ Cardinality({ i \in DOMAIN users : users[i] = selectedUser }) <= 1
        /\ selectedUser # Null => \E i \in DOMAIN users : users[i] = selectedUser)
  /\ [][ /\ \A r \in IssuedOf("PATCH") :
              selectedUser # Null /\ r.id = selectedUser.id
         /\ \A r \in IssuedOf("POST") : selectedUser = Null ]_vars

\* an update submitted while the second row was selected is in flight
C7_Witness ==
  \E r \in net :
    /\ r.kind = "PATCH" /\ r.id = 2
    /\ r.data.name = <<"b">>

\* C8: every step that issues a create, update or delete reloads the page
\* in the same handler, before the request's outcome is known: the client
\* state is that of a fresh page (no selection, create mode) and the list
\* is fetched again.
C8_MutationReloads ==
  [][ IssuedMutations # {} =>
        /\ page' = page + 1
        /\ PageIsFresh'
        /\ \E r \in Issued : r.kind = "GET" /\ r.page = page'
        /\ IssuedMutations \subseteq net' ]_vars

\* after a create the page has reloaded and its list fetch has completed
\* while the create is still in flight
C8_Witness ==
  /\ page = 1 /\ fetched = "ok"
  /\ \E r \in net : r.kind = "POST"

\* C9: when the list fetch fails, the list is left as it was, no list
\* request is sent again, and the selection, the form fields, the draft and
\* the errors shown are unchanged.
C9_FetchFailureIsSilent ==
  [][ (fetched = "pending" /\ fetched' = "failed") =>
        /\ users' = users
        /\ ~ \E r \in net' : r.kind = "GET" /\ r.page = page
        /\ Issued = {}
        /\ page' = page
        /\ selectedUser' = selectedUser
        /\ name' = name /\ empId' = empId /\ birthDate' = birthDate
        /\ formValues' = formValues
        /\ errors' = errors ]_vars

\* the fetch has failed under a form the operator had begun to fill in and
\* had failed to submit
C9_Witness ==
  /\ fetched = "failed"
  /\ name = <<"b">>
  /\ errors.empId = MsgEmpIdPos
  /\ users = << >>

\* C10 (as claimed): when the list fetch of the reload that followed a
\* mutation completes, the in-memory list is the backend's collection, and
\* that collection has the mutation applied (the mutation of the page
\* before is no longer on its way).
C10_ReloadResynchronizes ==
  [][ (fetched = "pending" /\ fetched' = "ok" /\ ~crashed) =>
        /\ users' = db'
        /\ ~ \E r \in net' : r.kind # "GET" /\ r.page = page - 1 ]_vars

====
